---- MODULE Spec2Model ----
(***************************************************************************)
(* The mender-artifact command line tool: validate, read, write, sign and  *)
(* repack of artifact files.  One behaviour is one run of one command over *)
(* a file system chosen in Init.  The Reader and the Writer of the         *)
(* areader / awriter packages are modelled from the specification; the     *)
(* commands that drive them are modelled from the sources.                 *)
(***************************************************************************)
EXTENDS Integers, Sequences, FiniteSets, TLC

\* ------------------------------------------------------------------ bounds
\* Scripts carried by a source artifact.
MaxScripts == 2
\* Distinct script file names; the numbers are the file names in the order
\* ioutil.ReadDir lists them.
NumScriptNames == 2

\* --------------------------------------------------------------- constants
LatestFormatVersion == 2

Nil == "nil"
NoKey == "nokey"
Keys == {"k1", "k2"}

ErrNoKey == "artifact is signed but no verification key was provided"
ErrVerify == "verification failed"
ErrFormat == "format error"
ErrHeader == "header error"
ErrChecksum == "checksum mismatch"
ErrBadSignature == "formatted correctly, but error validating signature"
ErrOpen == "can not open"
ErrKeyPath == "invalid key path"
ErrIO == "io error"
ErrScriptFile == "can not create script file"
ErrV1Signed == "can not use signed artifact with version 1"
ErrV1Scripts == "can not use scripts artifact with version 1"
ErrUnsupported == "unsupported artifact version"
ErrStat == "can not stat script file"
ErrConstraint == "version constraint violation"
ErrMissingKey == "missing signing key"
ErrSignV1 == "can not sign v1 artifact"
ErrAlreadySigned == "trying to sign already signed artifact"
ErrStore == "can not store signed artifact"
ErrDbus == "Failed to connect to dbus"
ErrMount == "Can not loop mount file"
ErrUmount == "Can not umount devices"
ErrMustProvide == "must provide device-type, artifact-name and update"
ErrWhitespace == "whitespace is not allowed in the artifact-name"

StructuralErrors == {ErrFormat, ErrHeader, ErrChecksum}
SignatureErrors == {ErrNoKey, ErrVerify}

\* ------------------------------------------------------------- file system
ArtPath == "art.mender"
OutPath == "out.mender"
DefaultName == "artifact.mender"
UpdatePath == "update.img"
RootfsPath == "rootfs.img"
KeyPath == "k1.pem"
MissingKeyPath == "missing.pem"
NewName == "release-2"
\* names handed out by ioutil.TempFile / ioutil.TempDir
TFile == "/tmp/mender-artifact1"
SDir == "/tmp/mender1"
TmpData == "/tmp/mender2"

\* state scripts given to write: a script file, a directory of scripts, an
\* empty directory, a path that does not exist
ScriptFile == "ArtifactInstall_Enter_01"
ScriptDir == "scripts.d"
EmptyDir == "empty.d"
MissingScript == "nosuch"

TmpOf(name) == name \o ".tmp"

\* the temporary file of unpackArtifact
UTmp == "/tmp/mender-artifact0"

Paths ==
    {ArtPath, OutPath, DefaultName, TmpOf(OutPath), TmpOf(DefaultName),
     UpdatePath, RootfsPath, KeyPath, TFile, SDir, TmpData, ScriptFile,
     ScriptDir, EmptyDir, UTmp}

Absent == [kind |-> "absent"]
EmptyFile == [kind |-> "empty"]
Partial == [kind |-> "partial"]
DataFile(p) == [kind |-> "data", payload |-> p]
Dir(entries) == [kind |-> "dir", entries |-> entries]
Script(name) == [kind |-> "script", name |-> name]
PriorFile == DataFile("previous")

ScriptNames == 1..NumScriptNames
ScriptSeqs == UNION {[1..n -> ScriptNames] : n \in 0..MaxScripts}

Artifact(format, version, devs, name, payload, scripts, signedBy, damage) ==
    [kind |-> "artifact", format |-> format, version |-> version,
     devs |-> devs, name |-> name, payload |-> payload, scripts |-> scripts,
     signedBy |-> signedBy, damage |-> damage]

Damages == {"none", "version", "header", "data"}

\* Artifacts a source path can hold: version 1 carries neither scripts nor a
\* signature; a damaged file is one of them with a broken section.
SourceArtifacts ==
    {Artifact("mender", 1, <<"qemux86-64">>, "release-1", "rootfs-A", <<>>,
              "none", d) : d \in Damages}
    \cup
    {Artifact("mender", 2, <<"qemux86-64">>, "release-1", "rootfs-A", s, k, d) :
        s \in ScriptSeqs, k \in {"none"} \cup Keys, d \in Damages}

VARIABLES
    pair,            \* two runs of repack on sources that differ in signature
    conc,            \* two concurrent runs of writeArtifact
    fs,              \* path -> file
    fs0,             \* the file system when the command started
    pc,              \* position of the running command
    fn,              \* the function whose callbacks the Reader holds
    cmd,             \* the command line of the run
    rd,              \* the Reader: stage, error, IsSigned
    validationError, \* captured by the verify closure of validate.go
    valid,           \* captured by the verify closure of checkIfValid
    sigInfo,         \* captured by the verify closure of readArtifact
    cbReturns,       \* what the verify callback returned to the Reader
    result,          \* what the command returned
    printed,         \* readArtifact printed the description
    writerCalls,     \* the invocations of WriteArtifact
    renames,         \* the calls of os.Rename
    rp,              \* repack: arguments, caller and result
    loc              \* locals of the running command

vars ==
    <<pair, conc, fs, fs0, pc, fn, cmd, rd, validationError, valid, sigInfo,
      cbReturns, result, printed, writerCalls, renames, rp, loc>>

captured == <<validationError, valid, sigInfo>>
harness == <<pair, conc>>
history == <<writerCalls, renames>>

Exists(p) == p \in DOMAIN fs /\ fs[p].kind # "absent"
File(p) == IF p \in DOMAIN fs THEN fs[p] ELSE Absent

Pending == [err |-> "pending", cause |-> Nil, badSignature |-> FALSE]
Return(err) == [err |-> err, cause |-> Nil, badSignature |-> FALSE]
Success == Return(Nil)

NoCmd == [op |-> "none"]
IdleReader == [stage |-> "idle", err |-> Nil, IsSigned |-> FALSE]
NoRepack == [caller |-> "none"]
NoLocals == [name |-> ""]
NoPair == [stage |-> "idle"]
NoConc == [stage |-> "idle"]

Init ==
    /\ \E src \in SourceArtifacts \cup {Absent}, prior \in {Absent, PriorFile} :
        fs = [p \in Paths |->
                CASE p = ArtPath -> src
                  [] p \in {OutPath, DefaultName} -> prior
                  [] p = UpdatePath -> DataFile("rootfs-A")
                  [] p = RootfsPath -> DataFile("rootfs-B")
                  [] p = KeyPath -> DataFile("k1")
                  [] p = ScriptFile -> Script(1)
                  [] p = ScriptDir -> Dir(ScriptNames)
                  [] p = EmptyDir -> Dir({})
                  [] OTHER -> Absent]
    /\ fs0 = fs
    /\ pc = "idle"
    /\ fn = "none"
    /\ cmd = NoCmd
    /\ rd = IdleReader
    /\ validationError = Nil
    /\ valid = TRUE
    /\ sigInfo = "no signature"
    /\ cbReturns = <<>>
    /\ result = Pending
    /\ printed = FALSE
    /\ writerCalls = <<>>
    /\ renames = <<>>
    /\ rp = NoRepack
    /\ loc = NoLocals
    /\ pair = NoPair
    /\ conc = NoConc

\* getKey: the bytes of the key file, or an error.
getKey(path) ==
    IF Exists(path) /\ fs[path].kind = "data"
    THEN [key |-> fs[path].payload, err |-> Nil]
    ELSE [key |-> NoKey, err |-> ErrKeyPath]

\* artifact.NewVerifier(key).Verify(message, sig) on the manifest and the
\* signature of art.
Verify(key, art) == IF art.signedBy = key THEN Nil ELSE ErrVerify

Src == fs[ArtPath]

\* ---------------------------------------------------- the verify closures
\* Each gives what it returns to the Reader and the captured variables after
\* the call.
Outcome(ret, vErr, v, info) ==
    [ret |-> ret, validationError |-> vErr, valid |-> v, sigInfo |-> info]

\* validate.go: verify, in validate
validate_verifyReturnsErr(key, art) ==
    LET err == IF key = NoKey THEN ErrNoKey ELSE Verify(key, art)
    IN  Outcome(err, IF err # Nil THEN err ELSE validationError, valid, sigInfo)

validate_verify(key, art) ==
    LET err == IF key = NoKey THEN ErrNoKey ELSE Verify(key, art)
    IN  Outcome(Nil, IF err # Nil THEN err ELSE validationError, valid, sigInfo)

\* validate.go: ver, in checkIfValid
checkIfValidV_ver(key, art) ==
    LET err == IF key = NoKey THEN ErrNoKey ELSE Verify(key, art)
    IN  Outcome(Nil, IF err # Nil THEN err ELSE validationError, valid, sigInfo)

\* main file: ver, in checkIfValid; verifyCallback is nil without a key
checkIfValid_ver(key, art) ==
    IF key = NoKey
    THEN Outcome(Nil, validationError, valid, sigInfo)
    ELSE Outcome(Nil, validationError,
                 IF Verify(key, art) # Nil THEN FALSE ELSE valid, sigInfo)

\* main file: ver, in readArtifact
readArtifact_verReturnsErr(key, art) ==
    Outcome(IF key = NoKey THEN Nil ELSE Verify(key, art),
            validationError, valid,
            IF key = NoKey
            THEN "signed but no key for verification provided"
            ELSE IF Verify(key, art) # Nil
                 THEN "signed; verification using provided key failed"
                 ELSE "signed and verified correctly")

readArtifact_ver(key, art) ==
    Outcome(Nil, validationError, valid,
            IF key = NoKey
            THEN "signed but no key for verification provided"
            ELSE IF Verify(key, art) # Nil
                 THEN "signed; verification using provided key failed"
                 ELSE "signed and verified correctly")

\* main file: verify, in repack
repack_verifyChecks(key, art) ==
    Outcome(Verify("k1", art), validationError, valid, sigInfo)

repack_verify(key, art) == Outcome(Nil, validationError, valid, sigInfo)

\* unpackArtifact reads with a Reader that was given no callback
CallbackRegistered == fn # "unpackArtifact"

VerifySignatureCallback(art) ==
    CASE fn = "validate" -> validate_verify(cmd.key, art)
      [] fn = "checkIfValidV" -> checkIfValidV_ver(cmd.key, art)
      [] fn = "checkIfValid" -> checkIfValid_ver(cmd.key, art)
      [] fn = "readArtifact" -> readArtifact_ver(cmd.key, art)
      [] OTHER -> repack_verify(NoKey, art)

\* ------------------------------------------------------------ the Reader
\* areader.Reader.ReadArtifact, one section of the container per step:
\* version marker, manifest and signature, header with the scripts, data.
StartReader == [stage |-> "version", err |-> Nil, IsSigned |-> FALSE]
Failed(err) == [rd EXCEPT !.stage = "returned", !.err = err]

\* The script callback of repack: one file per script in the staging
\* directory, opened with O_CREATE|O_EXCL.
RECURSIVE storeScripts(_, _)
storeScripts(entries, scripts) ==
    IF scripts = <<>>
    THEN [entries |-> entries, err |-> Nil]
    ELSE IF Head(scripts) \in entries
         THEN [entries |-> entries, err |-> ErrScriptFile]
         ELSE storeScripts(entries \cup {Head(scripts)}, Tail(scripts))

ReadVersion ==
    /\ pc = "read"
    /\ rd.stage = "version"
    /\ rd' = IF Src.kind # "artifact" \/ Src.damage = "version"
                \/ Src.version \notin {1, 2}
             THEN Failed(ErrFormat)
             ELSE [rd EXCEPT !.stage = "signature"]
    /\ UNCHANGED <<harness, fs0, fs, pc, fn, cmd, captured, cbReturns, result,
                   printed, history, rp, loc>>

ReadSignature ==
    /\ pc = "read"
    /\ rd.stage = "signature"
    /\ IF Src.signedBy = "none"
       THEN /\ rd' = [rd EXCEPT !.stage = "header"]
            /\ UNCHANGED <<captured, cbReturns>>
       ELSE IF ~CallbackRegistered
       THEN /\ rd' = [rd EXCEPT !.stage = "header", !.IsSigned = TRUE]
            /\ UNCHANGED <<captured, cbReturns>>
       ELSE LET cb == VerifySignatureCallback(Src)
            IN  /\ validationError' = cb.validationError
                /\ valid' = cb.valid
                /\ sigInfo' = cb.sigInfo
                /\ cbReturns' = Append(cbReturns, cb.ret)
                /\ rd' = IF cb.ret # Nil
                         THEN [Failed(cb.ret) EXCEPT !.IsSigned = TRUE]
                         ELSE [rd EXCEPT !.stage = "header", !.IsSigned = TRUE]
    /\ UNCHANGED <<harness, fs0, fs, pc, fn, cmd, result, printed, history, rp,
                   loc>>

ReadHeader ==
    /\ pc = "read"
    /\ rd.stage = "header"
    /\ IF Src.damage = "header"
       THEN rd' = Failed(ErrHeader) /\ fs' = fs
       ELSE IF fn = "repack"
            THEN LET st == storeScripts(fs[SDir].entries, Src.scripts)
                 IN  /\ fs' = [fs EXCEPT ![SDir] = Dir(st.entries)]
                     /\ rd' = IF st.err # Nil
                              THEN Failed(st.err)
                              ELSE [rd EXCEPT !.stage = "data"]
            ELSE rd' = [rd EXCEPT !.stage = "data"] /\ fs' = fs
    /\ UNCHANGED <<harness, fs0, pc, fn, cmd, captured, cbReturns, result,
                   printed, history, rp, loc>>

ReadData ==
    /\ pc = "read"
    /\ rd.stage = "data"
    /\ fs' = IF fn = "repack" /\ rp.dataFile = ""
             THEN [fs EXCEPT ![TmpData] = DataFile(Src.payload)]
             ELSE IF fn = "unpackArtifact"
                  THEN [fs EXCEPT ![UTmp] = DataFile(Src.payload)]
                  ELSE fs
    /\ rd' = IF Src.damage = "data"
             THEN Failed(ErrChecksum)
             ELSE [rd EXCEPT !.stage = "returned"]
    /\ UNCHANGED <<harness, fs0, pc, fn, cmd, captured, cbReturns, result,
                   printed, history, rp, loc>>

ReadArtifact == ReadVersion \/ ReadSignature \/ ReadHeader \/ ReadData

ReaderReturned(f) == pc = "read" /\ fn = f /\ rd.stage = "returned"

\* ----------------------------------------------------- validate.go: validate
validate_resultSignatureFirst(readErr, vErr) ==
    IF vErr # Nil
    THEN [err |-> ErrBadSignature, cause |-> vErr, badSignature |-> FALSE]
    ELSE Return(readErr)

validate_result(readErr, vErr) ==
    IF readErr # Nil
    THEN Return(readErr)
    ELSE IF vErr # Nil
         THEN [err |-> ErrBadSignature, cause |-> vErr, badSignature |-> FALSE]
         ELSE Success

validateCall ==
    /\ pc = "idle"
    /\ Exists(ArtPath)
    /\ \E key \in {NoKey} \cup Keys :
        cmd' = [op |-> "validate", key |-> key]
    /\ fn' = "validate"
    /\ rd' = StartReader
    /\ pc' = "read"
    /\ UNCHANGED <<harness, fs0, fs, captured, cbReturns, result, printed,
                   history, rp, loc>>

validateReturn ==
    /\ ReaderReturned("validate")
    /\ result' = validate_result(rd.err, validationError)
    /\ pc' = "done"
    /\ UNCHANGED <<harness, fs0, fs, fn, cmd, rd, captured, cbReturns, printed,
                   history, rp, loc>>

\* ------------------------------------------------- validate.go: checkIfValid
checkIfValidV_result(readErr, vErr) ==
    IF readErr # Nil
    THEN Return(readErr)
    ELSE IF vErr # Nil
         THEN [err |-> ErrBadSignature, cause |-> vErr, badSignature |-> TRUE]
         ELSE Success

checkIfValidVCall ==
    /\ pc = "idle"
    /\ \E key \in {NoKey} \cup Keys :
        cmd' = [op |-> "checkIfValidV", key |-> key]
    /\ fn' = "checkIfValidV"
    /\ IF Exists(ArtPath)
       THEN rd' = StartReader /\ pc' = "read" /\ result' = result
       ELSE rd' = rd /\ pc' = "done" /\ result' = Return(ErrOpen)
    /\ UNCHANGED <<harness, fs0, fs, captured, cbReturns, printed, history, rp,
                   loc>>

checkIfValidVReturn ==
    /\ ReaderReturned("checkIfValidV")
    /\ result' = checkIfValidV_result(rd.err, validationError)
    /\ pc' = "done"
    /\ UNCHANGED <<harness, fs0, fs, fn, cmd, rd, captured, cbReturns, printed,
                   history, rp, loc>>

\* --------------------------------------------------- main file: checkIfValid
checkIfValid_result(readErr, v) ==
    IF readErr # Nil
    THEN Return(readErr)
    ELSE IF ~v THEN Return(ErrBadSignature) ELSE Success

checkIfValidCall ==
    /\ pc = "idle"
    /\ \E keyPath \in {"", KeyPath, MissingKeyPath} :
        LET k == IF keyPath = "" THEN [key |-> NoKey, err |-> Nil]
                 ELSE getKey(keyPath)
        IN  /\ cmd' = [op |-> "checkIfValid", keyPath |-> keyPath,
                       key |-> k.key]
            /\ IF k.err # Nil
               THEN rd' = rd /\ pc' = "done" /\ result' = Return(k.err)
               ELSE IF Exists(ArtPath)
                    THEN rd' = StartReader /\ pc' = "read" /\ result' = result
                    ELSE rd' = rd /\ pc' = "done" /\ result' = Return(ErrOpen)
    /\ fn' = "checkIfValid"
    /\ UNCHANGED <<harness, fs0, fs, captured, cbReturns, printed, history, rp,
                   loc>>

checkIfValidReturn ==
    /\ ReaderReturned("checkIfValid")
    /\ cmd.op = "checkIfValid"
    /\ result' = checkIfValid_result(rd.err, valid)
    /\ pc' = "done"
    /\ UNCHANGED <<harness, fs0, fs, fn, cmd, rd, captured, cbReturns, printed,
                   history, rp, loc>>

\* --------------------------------------------------- main file: readArtifact
readArtifactCall ==
    /\ pc = "idle"
    /\ \E keyPath \in {"", KeyPath, MissingKeyPath} :
        LET k == IF keyPath = "" THEN [key |-> NoKey, err |-> Nil]
                 ELSE getKey(keyPath)
        IN  /\ cmd' = [op |-> "readArtifact", keyPath |-> keyPath,
                       key |-> k.key]
            /\ IF ~Exists(ArtPath)
               THEN rd' = rd /\ pc' = "done" /\ result' = Return(ErrOpen)
               ELSE IF k.err # Nil
                    THEN rd' = rd /\ pc' = "done" /\ result' = Return(k.err)
                    ELSE rd' = StartReader /\ pc' = "read" /\ result' = result
    /\ fn' = "readArtifact"
    /\ UNCHANGED <<harness, fs0, fs, captured, cbReturns, printed, history, rp,
                   loc>>

readArtifactReturn ==
    /\ ReaderReturned("readArtifact")
    /\ result' = Return(rd.err)
    /\ printed' = (rd.err = Nil)
    /\ pc' = "done"
    /\ UNCHANGED <<harness, fs0, fs, fn, cmd, rd, captured, cbReturns, history,
                   rp, loc>>

\* ------------------------------------------------------------ the Writer
\* os.Remove: a directory that still has entries is not removed.
Remove(file) ==
    IF file.kind = "dir" /\ file.entries # {} THEN file ELSE Absent

RECURSIVE SortedSeq(_)
SortedSeq(S) ==
    IF S = {}
    THEN <<>>
    ELSE LET m == CHOOSE x \in S : \A y \in S : x <= y
         IN  <<m>> \o SortedSeq(S \ {m})

\* scripts: every argument is a script file or a directory of script files,
\* listed by ioutil.ReadDir in file-name order.
RECURSIVE scriptsFrom(_, _)
scriptsFrom(args, scr) ==
    IF args = <<>>
    THEN [scr |-> scr, err |-> Nil]
    ELSE IF ~Exists(Head(args))
         THEN [scr |-> <<>>, err |-> ErrStat]
         ELSE IF fs[Head(args)].kind = "dir"
              THEN scriptsFrom(Tail(args),
                               scr \o SortedSeq(fs[Head(args)].entries))
              ELSE scriptsFrom(Tail(args), Append(scr, fs[Head(args)].name))

scripts(args) == scriptsFrom(args, <<>>)

\* artifactWriter: a signing Writer when a key is given, refused for version 1.
artifactWriter(keyPath, ver) ==
    IF keyPath # ""
    THEN IF ver = 1
         THEN [signer |-> NoKey, err |-> ErrV1Signed]
         ELSE [signer |-> getKey(keyPath).key, err |-> getKey(keyPath).err]
    ELSE [signer |-> NoKey, err |-> Nil]

\* The characters of a name.  A run of characters other than white space
\* is kept as one symbol; a space is the symbol " ".
Runes(name) ==
    CASE name = "" -> <<>>
      [] name = " r" -> <<" ", "r">>
      [] name = "r " -> <<"r", " ">>
      [] name = "r 1" -> <<"r", " ", "1">>
      [] name = " " -> <<" ">>
      [] OTHER -> <<name>>

HasWhitespace(name) == \E i \in 1..Len(Runes(name)) : Runes(name)[i] = " "

\* strings.Fields: the maximal runs of characters other than white space
RECURSIVE FieldsFrom(_, _, _)
FieldsFrom(runes, cur, acc) ==
    IF runes = <<>>
    THEN IF cur = <<>> THEN acc ELSE Append(acc, cur)
    ELSE IF Head(runes) = " "
         THEN FieldsFrom(Tail(runes), <<>>,
                         IF cur = <<>> THEN acc ELSE Append(acc, cur))
         ELSE FieldsFrom(Tail(runes), Append(cur, Head(runes)), acc)

Fields(name) == FieldsFrom(Runes(name), <<>>, <<>>)

\* awriter.Writer.WriteArtifact: the version constraints are checked before a
\* byte is written; then the payload file is composed into the stream.
WriterCall(to, signer, format, version, devs, name, handler, data, scr) ==
    [to |-> to, signer |-> signer, format |-> format, version |-> version,
     devs |-> devs, name |-> name, handler |-> handler, data |-> data,
     scripts |-> scr]

FileOn(f, p) == IF p \in DOMAIN f THEN f[p] ELSE Absent

WriteArtifactOn(f, w, ioOK) ==
    IF (w.version = 1 /\ (w.signer # NoKey \/ w.scripts # <<>>))
       \/ w.version \notin {1, 2} \/ w.devs = <<>>
       \/ HasWhitespace(w.name)
    THEN [err |-> ErrConstraint, file |-> FileOn(f, w.to)]
    ELSE IF FileOn(f, w.data).kind # "data"
         THEN [err |-> ErrOpen, file |-> Partial]
         ELSE IF ~ioOK
              THEN [err |-> ErrIO, file |-> Partial]
              ELSE [err |-> Nil,
                    file |-> Artifact(w.format, w.version, w.devs, w.name,
                                      FileOn(f, w.data).payload, w.scripts,
                                      IF w.signer = NoKey THEN "none"
                                      ELSE w.signer, "none")]

WriteArtifact(w, ioOK) == WriteArtifactOn(fs, w, ioOK)

\* -------------------------------------------------- main file: writeArtifact
\* lines 101-109: the payload handler of the requested version
writeArtifact_handler(version) ==
    IF version = 1 THEN "RootfsV1" ELSE "RootfsV2"

ScriptArgs ==
    {<<>>, <<ScriptFile>>, <<ScriptDir>>, <<EmptyDir>>, <<MissingScript>>}

ArtifactNames == {"", "release-1", " r", "r ", "r 1", " "}
DeviceTypes == {<<>>, <<"qemux86-64">>}
Updates == {"", UpdatePath}

\* lines 660-670: the action of "write rootfs-image"
writeRootfs_checkNoUpdate(devs, name, update) ==
    IF Len(devs) = 0 \/ Len(Runes(name)) = 0
    THEN ErrMustProvide
    ELSE IF Len(Fields(name)) > 1 THEN ErrWhitespace ELSE Nil

writeRootfs_check(devs, name, update) ==
    IF Len(devs) = 0 \/ Len(Runes(name)) = 0 \/ Len(Runes(update)) = 0
    THEN ErrMustProvide
    ELSE IF Len(Fields(name)) > 1 THEN ErrWhitespace ELSE Nil

writeRootfs ==
    /\ pc = "idle"
    /\ \E devs \in DeviceTypes, name \in ArtifactNames, update \in Updates :
        /\ cmd' = [op |-> "writeRootfs", update |-> update,
                   deviceType |-> devs, artifactName |-> name]
        /\ IF writeRootfs_check(devs, name, update) = Nil
           THEN pc' = "w_call" /\ result' = result
           ELSE /\ pc' = "done"
                /\ result' = Return(writeRootfs_check(devs, name, update))
    /\ fn' = "writeRootfs"
    /\ UNCHANGED <<harness, fs0, fs, rd, captured, cbReturns, printed, history,
                   rp, loc>>

writeArtifactCall ==
    /\ pc = "w_call"
    /\ \E version \in 1..(LatestFormatVersion + 1),
          keyPath \in {"", KeyPath, MissingKeyPath},
          script \in ScriptArgs,
          output \in {"", OutPath} :
        /\ cmd' = [op |-> "writeArtifact", version |-> version,
                   keyPath |-> keyPath, script |-> script,
                   output |-> output, update |-> cmd.update,
                   deviceType |-> cmd.deviceType,
                   artifactName |-> cmd.artifactName]
        /\ loc' = [name |-> IF output # "" THEN output ELSE DefaultName]
        /\ IF version \in {1, 2}
           THEN pc' = "w_create" /\ result' = result
           ELSE pc' = "done" /\ result' = Return(ErrUnsupported)
    /\ fn' = "writeArtifact"
    /\ UNCHANGED <<harness, fs0, fs, rd, captured, cbReturns, printed, history,
                   rp>>

writeCreate ==
    /\ pc = "w_create"
    /\ \E ok \in BOOLEAN :
        IF ok
        THEN /\ fs' = [fs EXCEPT ![TmpOf(loc.name)] = EmptyFile]
             /\ pc' = "w_prepare"
             /\ result' = result
        ELSE /\ fs' = fs
             /\ pc' = "done"
             /\ result' = Return(ErrIO)
    /\ UNCHANGED <<harness, fs0, fn, cmd, rd, captured, cbReturns, printed,
                   history, rp, loc>>

\* lines 126-137: the Writer, the scripts and the version checks
writePrepareNoScriptCheck ==
    /\ pc = "w_prepare"
    /\ LET aw == artifactWriter(cmd.keyPath, cmd.version)
           scr == scripts(cmd.script)
       IN  IF aw.err # Nil
           THEN pc' = "w_defer" /\ result' = Return(aw.err) /\ loc' = loc
           ELSE IF scr.err # Nil
                THEN pc' = "w_defer" /\ result' = Return(scr.err) /\ loc' = loc
                ELSE /\ pc' = "w_write"
                     /\ result' = result
                     /\ loc' = [name |-> loc.name, signer |-> aw.signer,
                                scr |-> scr.scr]
    /\ UNCHANGED <<harness, fs0, fs, fn, cmd, rd, captured, cbReturns, printed,
                   history, rp>>

writePrepare ==
    /\ pc = "w_prepare"
    /\ LET aw == artifactWriter(cmd.keyPath, cmd.version)
           scr == scripts(cmd.script)
       IN  IF aw.err # Nil
           THEN pc' = "w_defer" /\ result' = Return(aw.err) /\ loc' = loc
           ELSE IF scr.err # Nil
                THEN pc' = "w_defer" /\ result' = Return(scr.err) /\ loc' = loc
                ELSE IF Len(scr.scr) # 0 /\ cmd.version = 1
                     THEN /\ pc' = "w_defer"
                          /\ result' = Return(ErrV1Scripts)
                          /\ loc' = loc
                     ELSE /\ pc' = "w_write"
                          /\ result' = result
                          /\ loc' = [name |-> loc.name, signer |-> aw.signer,
                                     scr |-> scr.scr]
    /\ UNCHANGED <<harness, fs0, fs, fn, cmd, rd, captured, cbReturns, printed,
                   history, rp>>

writeWrite ==
    /\ pc = "w_write"
    /\ \E ioOK \in BOOLEAN :
        LET w == WriterCall(TmpOf(loc.name), loc.signer, "mender", cmd.version,
                            cmd.deviceType, cmd.artifactName,
                            writeArtifact_handler(cmd.version), cmd.update,
                            loc.scr)
            out == WriteArtifact(w, ioOK)
        IN  /\ writerCalls' = Append(writerCalls, w)
            /\ fs' = [fs EXCEPT ![w.to] = out.file]
            /\ IF out.err # Nil
               THEN pc' = "w_defer" /\ result' = Return(out.err)
               ELSE pc' = "w_rename" /\ result' = result
    /\ UNCHANGED <<harness, fs0, fn, cmd, rd, captured, cbReturns, printed,
                   renames, rp, loc>>

\* lines 145-150: os.Rename of the temporary file onto the output path
writeRename ==
    /\ pc = "w_rename"
    /\ \E ok \in BOOLEAN :
        /\ fs' = IF ok
                 THEN [fs EXCEPT ![loc.name] = fs[TmpOf(loc.name)],
                                 ![TmpOf(loc.name)] = Absent]
                 ELSE fs
        /\ renames' = Append(renames, [from |-> TmpOf(loc.name),
                                       to |-> loc.name, ok |-> ok])
        /\ result' = IF ok THEN Success ELSE Return(ErrIO)
    /\ pc' = "w_defer"
    /\ UNCHANGED <<harness, fs0, fn, cmd, rd, captured, cbReturns, printed,
                   writerCalls, rp, loc>>

\* lines 119-124: the deferred close and remove of the temporary file
writeDeferredKeepsTmp ==
    /\ pc = "w_defer"
    /\ pc' = "done"
    /\ UNCHANGED <<harness, fs0, fs, fn, cmd, rd, captured, cbReturns, result,
                   printed, history, rp, loc>>

writeDeferred ==
    /\ pc = "w_defer"
    /\ fs' = [fs EXCEPT ![TmpOf(loc.name)] = Remove(fs[TmpOf(loc.name)])]
    /\ pc' = "done"
    /\ UNCHANGED <<harness, fs0, fn, cmd, rd, captured, cbReturns, result,
                   printed, history, rp, loc>>

\* --------------------------------------------------------- main file: repack
StartRepack(caller, to, key, newName, dataFile) ==
    [caller |-> caller, to |-> to, key |-> key, newName |-> newName,
     dataFile |-> dataFile, data |-> dataFile, err |-> Nil, returned |-> FALSE]

ReturnTo(caller) ==
    IF caller = "signExisting" THEN "se_check" ELSE "ra_return"

\* the deferred calls of repack: tmpData.Close() and os.Remove(sDir)
repack_deferred(f) == [f EXCEPT ![SDir] = Remove(f[SDir])]

\* lines 431-435
repackTempDir ==
    /\ pc = "rp_tempdir"
    /\ \E ok \in BOOLEAN :
        IF ok
        THEN /\ fs' = [fs EXCEPT ![SDir] = Dir({})]
             /\ pc' = "rp_stage"
             /\ rp' = rp
        ELSE /\ fs' = fs
             /\ pc' = ReturnTo(rp.caller)
             /\ rp' = [rp EXCEPT !.err = ErrIO, !.returned = TRUE]
    /\ UNCHANGED <<harness, fs0, fn, cmd, rd, captured, cbReturns, result,
                   printed, history, loc>>

\* lines 459-476: the staged payload file, when no data file is given
repackStage ==
    /\ pc = "rp_stage"
    /\ IF rp.dataFile = ""
       THEN \E ok \in BOOLEAN :
               IF ok
               THEN /\ fs' = [fs EXCEPT ![TmpData] = EmptyFile]
                    /\ rp' = [rp EXCEPT !.data = TmpData]
                    /\ pc' = "read"
                    /\ rd' = StartReader
               ELSE /\ fs' = repack_deferred(fs)
                    /\ rp' = [rp EXCEPT !.err = ErrIO, !.returned = TRUE]
                    /\ pc' = ReturnTo(rp.caller)
                    /\ rd' = rd
       ELSE /\ fs' = fs
            /\ rp' = rp
            /\ pc' = "read"
            /\ rd' = StartReader
    /\ fn' = "repack"
    /\ UNCHANGED <<harness, fs0, cmd, captured, cbReturns, result, printed,
                   history, loc>>

\* lines 478-502: the result of the read, the handler, the staged scripts
repackAfterRead ==
    /\ ReaderReturned("repack")
    /\ IF rd.err # Nil
       THEN /\ fs' = repack_deferred(fs)
            /\ rp' = [rp EXCEPT !.err = rd.err, !.returned = TRUE]
            /\ pc' = ReturnTo(rp.caller)
       ELSE IF Src.version \notin {1, 2}
            THEN /\ fs' = repack_deferred(fs)
                 /\ rp' = [rp EXCEPT !.err = ErrUnsupported, !.returned = TRUE]
                 /\ pc' = ReturnTo(rp.caller)
            ELSE IF scripts(<<SDir>>).err # Nil
                 THEN /\ fs' = repack_deferred(fs)
                      /\ rp' = [rp EXCEPT !.err = scripts(<<SDir>>).err,
                                          !.returned = TRUE]
                      /\ pc' = ReturnTo(rp.caller)
                 ELSE /\ fs' = fs
                      /\ rp' = rp
                      /\ pc' = "rp_write"
    /\ UNCHANGED <<harness, fs0, fn, cmd, rd, captured, cbReturns, result,
                   printed, history, loc>>

\* lines 504-516: the Writer, the name, WriteArtifact; then the deferred calls
repack_nameAlwaysNew(srcName, newName) == newName

repack_name(srcName, newName) == IF newName # "" THEN newName ELSE srcName

\* lines 486-494: the payload handler of the version read from the source
repack_handler(version) == IF version = 1 THEN "RootfsV1" ELSE "RootfsV2"

\* lines 504-507: an unsigned Writer, a signing one when a key is given
repack_writerKeepsSignature(key, isSigned) ==
    IF key # NoKey THEN key ELSE IF isSigned THEN "k1" ELSE NoKey

repack_writer(key, isSigned) == IF key # NoKey THEN key ELSE NoKey

repackWrite ==
    /\ pc = "rp_write"
    /\ \E ioOK \in BOOLEAN :
        LET w == WriterCall(rp.to, repack_writer(rp.key, rd.IsSigned),
                            Src.format, Src.version, Src.devs,
                            repack_name(Src.name, rp.newName),
                            repack_handler(Src.version), rp.data,
                            scripts(<<SDir>>).scr)
            out == WriteArtifact(w, ioOK)
        IN  /\ writerCalls' = Append(writerCalls, w)
            /\ fs' = repack_deferred([fs EXCEPT ![w.to] = out.file])
            /\ rp' = [rp EXCEPT !.err = out.err, !.returned = TRUE]
    /\ pc' = ReturnTo(rp.caller)
    /\ UNCHANGED <<harness, fs0, fn, cmd, rd, captured, cbReturns, result,
                   printed, renames, loc>>

repack == repackTempDir \/ repackStage \/ repackAfterRead \/ repackWrite

\* --------------------------------------------------- main file: signExisting
\* lines 329-343
signExistingCall ==
    /\ pc = "idle"
    /\ \E keyPath \in {"", KeyPath, MissingKeyPath}, force \in BOOLEAN,
          output \in {"", OutPath} :
        /\ cmd' = [op |-> "signExisting", keyPath |-> keyPath,
                   force |-> force, output |-> output]
        /\ IF keyPath = ""
           THEN pc' = "done" /\ result' = Return(ErrMissingKey) /\ loc' = loc
           ELSE IF getKey(keyPath).err # Nil
                THEN /\ pc' = "done"
                     /\ result' = Return(getKey(keyPath).err)
                     /\ loc' = loc
                ELSE /\ pc' = "se_temp"
                     /\ result' = result
                     /\ loc' = [name |-> IF output # "" THEN output ELSE ArtPath,
                                privateKey |-> getKey(keyPath).key,
                                closeErr |-> "pending"]
    /\ fn' = "signExisting"
    /\ UNCHANGED <<harness, fs0, fs, rd, captured, cbReturns, printed, history,
                   rp>>

\* lines 345-350
signTempFile ==
    /\ pc = "se_temp"
    /\ \E ok \in BOOLEAN :
        IF ok
        THEN fs' = [fs EXCEPT ![TFile] = EmptyFile] /\ pc' = "se_open"
                /\ result' = result
        ELSE fs' = fs /\ pc' = "done" /\ result' = Return(ErrIO)
    /\ UNCHANGED <<harness, fs0, fn, cmd, rd, captured, cbReturns, printed,
                   history, rp, loc>>

\* lines 352-358
signOpen ==
    /\ pc = "se_open"
    /\ IF Exists(ArtPath)
       THEN /\ rp' = StartRepack("signExisting", TFile, loc.privateKey, "", "")
            /\ pc' = "rp_tempdir"
            /\ result' = result
       ELSE /\ rp' = rp
            /\ pc' = "se_defer"
            /\ result' = Return(ErrOpen)
    /\ UNCHANGED <<harness, fs0, fs, fn, cmd, rd, captured, cbReturns, printed,
                   history, loc>>

\* lines 359-373: the result of repack, the version, the re-sign guard
signExisting_checkNoGuard(err, version, isSigned, force) ==
    IF err # Nil
    THEN err
    ELSE CASE version = 1 -> ErrSignV1
           [] version = 2 -> Nil
           [] OTHER -> ErrUnsupported

signExisting_check(err, version, isSigned, force) ==
    IF err # Nil
    THEN err
    ELSE CASE version = 1 -> ErrSignV1
           [] version = 2 ->
                IF isSigned /\ ~force THEN ErrAlreadySigned ELSE Nil
           [] OTHER -> ErrUnsupported

signCheck ==
    /\ pc = "se_check"
    /\ LET err == signExisting_check(rp.err, Src.version, rd.IsSigned, cmd.force)
       IN  IF err # Nil
           THEN pc' = "se_defer" /\ result' = Return(err)
           ELSE pc' = "se_close" /\ result' = result
    /\ UNCHANGED <<harness, fs0, fs, fn, cmd, rd, captured, cbReturns, printed,
                   history, rp, loc>>

\* lines 375-377
signClose ==
    /\ pc = "se_close"
    /\ \E ok \in BOOLEAN :
        /\ loc' = [loc EXCEPT !.closeErr = IF ok THEN Nil ELSE ErrIO]
        /\ IF ok
           THEN pc' = "se_rename" /\ result' = result
           ELSE pc' = "se_defer" /\ result' = Return(ErrIO)
    /\ UNCHANGED <<harness, fs0, fs, fn, cmd, rd, captured, cbReturns, printed,
                   history, rp>>

\* lines 379-389
signRename ==
    /\ pc = "se_rename"
    /\ \E ok \in BOOLEAN :
        /\ fs' = IF ok
                 THEN [fs EXCEPT ![loc.name] = fs[TFile], ![TFile] = Absent]
                 ELSE [fs EXCEPT ![TFile] = Remove(fs[TFile])]
        /\ renames' = Append(renames, [from |-> TFile, to |-> loc.name,
                                       ok |-> ok])
        /\ result' = IF ok THEN Success ELSE Return(ErrStore)
    /\ pc' = "se_defer"
    /\ UNCHANGED <<harness, fs0, fn, cmd, rd, captured, cbReturns, printed,
                   writerCalls, rp, loc>>

\* line 350: the deferred os.Remove of the temporary file
signDeferredKeepsTmp ==
    /\ pc = "se_defer"
    /\ pc' = "done"
    /\ UNCHANGED <<harness, fs0, fs, fn, cmd, rd, captured, cbReturns, result,
                   printed, history, rp, loc>>

signDeferred ==
    /\ pc = "se_defer"
    /\ fs' = [fs EXCEPT ![TFile] = Remove(fs[TFile])]
    /\ pc' = "done"
    /\ UNCHANGED <<harness, fs0, fn, cmd, rd, captured, cbReturns, result,
                   printed, history, rp, loc>>

\* ------------------------------------------------- main file: repackArtifact
\* The arguments in the order repackArtifact hands them to repack.
repackArtifact_call(rootfs, privateKey, newName) ==
    StartRepack("repackArtifact", TFile, privateKey, rootfs, newName)

\* lines 559-582
repackArtifact(artifact, rootfs, keyPath, newName) ==
    \E tmpOK \in BOOLEAN :
        LET k == IF keyPath = "" THEN [key |-> NoKey, err |-> Nil]
                 ELSE getKey(keyPath)
        IN  IF ~Exists(artifact)
            THEN /\ fs' = fs /\ rp' = rp /\ pc' = "done"
                 /\ result' = Return(ErrOpen)
            ELSE IF ~tmpOK
                 THEN /\ fs' = fs /\ rp' = rp /\ pc' = "done"
                      /\ result' = Return(ErrIO)
                 ELSE /\ fs' = [fs EXCEPT ![TFile] = EmptyFile]
                      /\ IF k.err # Nil
                         THEN /\ rp' = rp /\ pc' = "done"
                              /\ result' = Return(k.err)
                         ELSE /\ rp' = repackArtifact_call(rootfs, k.key,
                                                           newName)
                              /\ pc' = "rp_tempdir"
                              /\ result' = result

repackArtifactCall ==
    /\ pc = "idle"
    /\ \E keyPath \in {"", KeyPath, MissingKeyPath}, newName \in {"", NewName} :
        /\ cmd' = [op |-> "repackArtifact", artifact |-> ArtPath,
                   rootfs |-> RootfsPath, keyPath |-> keyPath,
                   newName |-> newName]
        /\ repackArtifact(ArtPath, RootfsPath, keyPath, newName)
    /\ fn' = "repackArtifact"
    /\ UNCHANGED <<harness, fs0, rd, captured, cbReturns, printed, history,
                   loc>>

repackArtifactReturn ==
    /\ pc = "ra_return"
    /\ cmd.op = "repackArtifact"
    /\ result' = Return(rp.err)
    /\ pc' = "done"
    /\ UNCHANGED <<harness, fs0, fs, fn, cmd, rd, captured, cbReturns, printed,
                   history, rp, loc>>

\* ------------------------------------------------- main file: modifyArtifact
\* The locals of modifyArtifact: isArtifact and fileToModify, the error of
\* checkIfValid, whether unpackArtifact was called, the file opened
\* read-write and the file handed to mountFile.
ModifyLocals(checkErr) ==
    [name |-> "", isArtifact |-> FALSE, fileToModify |-> ArtPath,
     checkErr |-> checkErr, unpacked |-> FALSE, opened |-> "", mounted |-> ""]

\* lines 584-594: the call of checkIfValid(fileToModify, key)
modifyArtifactCall ==
    /\ pc = "idle"
    /\ \E keyPath \in {"", KeyPath, MissingKeyPath}, newName \in {"", NewName} :
        LET k == IF keyPath = "" THEN [key |-> NoKey, err |-> Nil]
                 ELSE getKey(keyPath)
        IN  /\ cmd' = [op |-> "modifyArtifact", keyPath |-> keyPath,
                       key |-> k.key, newName |-> newName]
            /\ IF k.err # Nil
               THEN /\ rd' = rd /\ pc' = "m_open"
                    /\ loc' = ModifyLocals(k.err)
               ELSE IF Exists(ArtPath)
                    THEN /\ rd' = StartReader /\ pc' = "read"
                         /\ loc' = ModifyLocals(Nil)
                    ELSE /\ rd' = rd /\ pc' = "m_open"
                         /\ loc' = ModifyLocals(ErrOpen)
    /\ fn' = "checkIfValid"
    /\ UNCHANGED <<harness, fs0, fs, captured, cbReturns, result, printed,
                   history, rp>>

\* lines 594-596: the result of checkIfValid decides isArtifact
modifyChecked ==
    /\ ReaderReturned("checkIfValid")
    /\ cmd.op = "modifyArtifact"
    /\ LET err == checkIfValid_result(rd.err, valid).err
       IN  /\ loc' = [loc EXCEPT !.checkErr = err, !.isArtifact = (err = Nil)]
           /\ pc' = IF err = Nil THEN "m_unpack" ELSE "m_open"
    /\ UNCHANGED <<harness, fs0, fs, fn, cmd, rd, captured, cbReturns, result,
                   printed, history, rp>>

\* lines 396-427: unpackArtifact up to the read
unpackArtifactCall ==
    /\ pc = "m_unpack"
    /\ \E tmpOK \in BOOLEAN :
        IF ~Exists(ArtPath)
        THEN /\ fs' = fs /\ rd' = rd /\ pc' = "done"
             /\ result' = Return(ErrOpen)
        ELSE IF ~tmpOK
             THEN /\ fs' = fs /\ rd' = rd /\ pc' = "done"
                  /\ result' = Return(ErrIO)
             ELSE /\ fs' = [fs EXCEPT ![UTmp] = EmptyFile]
                  /\ rd' = StartReader
                  /\ pc' = "read"
                  /\ result' = result
    /\ fn' = "unpackArtifact"
    /\ loc' = [loc EXCEPT !.unpacked = TRUE]
    /\ UNCHANGED <<harness, fs0, cmd, captured, cbReturns, printed, history,
                   rp>>

\* lines 422-426 and 598-601
unpackArtifactReturn ==
    /\ ReaderReturned("unpackArtifact")
    /\ IF rd.err # Nil
       THEN pc' = "done" /\ result' = Return(rd.err) /\ loc' = loc
       ELSE /\ pc' = "m_open"
            /\ result' = result
            /\ loc' = [loc EXCEPT !.fileToModify = UTmp]
    /\ UNCHANGED <<harness, fs0, fs, fn, cmd, rd, captured, cbReturns, printed,
                   history, rp>>

\* lines 604-615: os.OpenFile(fileToModify, O_RDWR) and the bus connection
modifyOpen ==
    /\ pc = "m_open"
    /\ \E busOK \in BOOLEAN :
        IF ~Exists(loc.fileToModify)
        THEN pc' = "done" /\ result' = Return(ErrOpen) /\ loc' = loc
        ELSE /\ loc' = [loc EXCEPT !.opened = loc.fileToModify]
             /\ IF busOK
                THEN pc' = "m_mount" /\ result' = result
                ELSE pc' = "done" /\ result' = Return(ErrDbus)
    /\ UNCHANGED <<harness, fs0, fs, fn, cmd, rd, captured, cbReturns, printed,
                   history, rp>>

\* lines 617-628: mountFile gets the descriptor of the opened file;
\* modifyExisting changes nothing
modifyMount ==
    /\ pc = "m_mount"
    /\ \E ok \in BOOLEAN :
        IF ok
        THEN /\ loc' = [loc EXCEPT !.mounted = loc.opened]
             /\ pc' = "m_unmount"
             /\ result' = result
        ELSE pc' = "done" /\ result' = Return(ErrMount) /\ loc' = loc
    /\ UNCHANGED <<harness, fs0, fs, fn, cmd, rd, captured, cbReturns, printed,
                   history, rp>>

\* lines 630-635 and 643
modifyUnmountAlwaysRepack ==
    /\ pc = "m_unmount"
    /\ \E ok \in BOOLEAN :
        IF ~ok
        THEN pc' = "done" /\ result' = Return(ErrUmount)
        ELSE pc' = "m_repack" /\ result' = result
    /\ UNCHANGED <<harness, fs0, fs, fn, cmd, rd, captured, cbReturns, printed,
                   history, rp, loc>>

modifyUnmount ==
    /\ pc = "m_unmount"
    /\ \E ok \in BOOLEAN :
        IF ~ok
        THEN pc' = "done" /\ result' = Return(ErrUmount)
        ELSE IF loc.isArtifact
             THEN pc' = "m_repack" /\ result' = result
             ELSE pc' = "done" /\ result' = Success
    /\ UNCHANGED <<harness, fs0, fs, fn, cmd, rd, captured, cbReturns, printed,
                   history, rp, loc>>

\* lines 635-641: repackArtifact(c.Args().First(), fileToModify, key, name)
modifyRepack ==
    /\ pc = "m_repack"
    /\ repackArtifact(ArtPath, loc.fileToModify, cmd.keyPath, cmd.newName)
    /\ UNCHANGED <<harness, fs0, fn, cmd, rd, captured, cbReturns, printed,
                   history, loc>>

modifyReturn ==
    /\ pc = "ra_return"
    /\ cmd.op = "modifyArtifact"
    /\ result' = Return(rp.err)
    /\ pc' = "done"
    /\ UNCHANGED <<harness, fs0, fs, fn, cmd, rd, captured, cbReturns, printed,
                   history, rp, loc>>

\* ------------------------------------------- repack as one function
\* What the Reader returns to repack for the source src: the sections in
\* the order ReadVersion, ReadSignature, ReadHeader, ReadData take them.
repack_read(src) ==
    IF src.kind # "artifact" \/ src.damage = "version"
       \/ src.version \notin {1, 2}
    THEN ErrFormat
    ELSE IF src.signedBy # "none" /\ repack_verify(NoKey, src).ret # Nil
         THEN repack_verify(NoKey, src).ret
         ELSE IF src.damage = "header"
              THEN ErrHeader
              ELSE IF storeScripts({}, src.scripts).err # Nil
                   THEN storeScripts({}, src.scripts).err
                   ELSE IF src.damage = "data" THEN ErrChecksum ELSE Nil

\* the outcomes of ioutil.TempDir, ioutil.TempFile and the Writer's output
Envs == [tempDir : BOOLEAN, tmpFile : BOOLEAN, io : BOOLEAN]

\* lines 429-517 on the file system f: the error returned and the calls of
\* the Writer with their arguments
repackOutcome(f, to, key, newName, dataFile, env) ==
    LET src == f[ArtPath]
        g == IF dataFile = ""
             THEN [f EXCEPT ![TmpData] = DataFile(src.payload)]
             ELSE f
        w == WriterCall(to, repack_writer(key, src.signedBy # "none"),
                        src.format, src.version, src.devs,
                        repack_name(src.name, newName),
                        repack_handler(src.version),
                        IF dataFile = "" THEN TmpData ELSE dataFile,
                        SortedSeq(storeScripts({}, src.scripts).entries))
    IN  IF ~env.tempDir \/ (dataFile = "" /\ ~env.tmpFile)
        THEN [err |-> ErrIO, calls |-> <<>>]
        ELSE IF repack_read(src) # Nil
             THEN [err |-> repack_read(src), calls |-> <<>>]
             ELSE [err |-> WriteArtifactOn(g, w, env.io).err, calls |-> <<w>>]

\* The sources that differ from src in the bytes of the signature only: the
\* signature of another key, or bytes that are the signature of no key.
Twins(src) ==
    {[src EXCEPT !.signedBy = s] :
        s \in (Keys \cup {"forged"}) \ {src.signedBy}}

\* two runs of repack with the same arguments and the same outcomes of the
\* environment, one on the source and one on a twin of it
PairCall ==
    /\ pc = "idle"
    /\ Src.kind = "artifact"
    /\ Src.signedBy # "none"
    /\ \E twin \in Twins(Src), key \in {NoKey} \cup Keys,
          newName \in {"", NewName}, dataFile \in {"", RootfsPath},
          env \in Envs :
        pair' = [stage |-> "called", twin |-> twin, key |-> key,
                 newName |-> newName, dataFile |-> dataFile, env |-> env]
    /\ pc' = "pair"
    /\ UNCHANGED <<conc, fs0, fs, fn, cmd, rd, captured, cbReturns, result,
                   printed, history, rp, loc>>

PairRepack ==
    /\ pc = "pair"
    /\ pair' = [stage |-> "done", twin |-> pair.twin, key |-> pair.key,
                 first |-> repackOutcome(fs, TFile, pair.key, pair.newName,
                                         pair.dataFile, pair.env),
                 second |-> repackOutcome([fs EXCEPT ![ArtPath] = pair.twin],
                                          TFile, pair.key, pair.newName,
                                          pair.dataFile, pair.env)]
    /\ pc' = "done"
    /\ UNCHANGED <<conc, fs0, fs, fn, cmd, rd, captured, cbReturns, result,
                   printed, history, rp, loc>>

\* ------------------------------- writeArtifact, two runs on one output path
\* Two processes run writeArtifact with the same output path.  A path names
\* an inode; the temporary path of both is name + ".tmp".  An artifact is
\* written in NChunks pieces, each tagged with the process that wrote it.
NChunks == 2
Procs == {"p1", "p2"}
InodeOf(p) == IF p = "p1" THEN 1 ELSE 2
PriorInode == 3
StartProc == [pc |-> "c_create", fd |-> 0, off |-> 0, err |-> Nil]

\* the processes other than p that hold inode i open and have not yet renamed
Writing(p, i) ==
    {q \in Procs \ {p} : /\ conc.procs[q].fd = i
                         /\ conc.procs[q].pc \in {"c_write", "c_rename"}}

\* write(2) of one piece at position k of a file
WriteAt(content, k, tag) ==
    [j \in 1..(IF Len(content) > k THEN Len(content) ELSE k) |->
        IF j = k THEN tag ELSE IF j <= Len(content) THEN content[j] ELSE "hole"]

concStart ==
    /\ pc = "idle"
    /\ conc.stage = "idle"
    /\ conc' = [stage |-> "run", tmp |-> 0,
                final |-> IF Exists(OutPath) THEN PriorInode ELSE 0,
                inodes |-> [i \in 1..PriorInode |->
                              IF i = PriorInode
                              THEN [j \in 1..NChunks |-> "old"]
                              ELSE <<>>],
                procs |-> [p \in Procs |-> StartProc],
                truncated |-> {}, removed |-> {}]
    /\ UNCHANGED <<pair, fs0, fs, pc, fn, cmd, rd, captured, cbReturns, result,
                   printed, history, rp, loc>>

\* line 115: os.Create(name + ".tmp") opens with O_CREATE|O_TRUNC
concCreate(p) ==
    /\ conc.stage = "run"
    /\ conc.procs[p].pc = "c_create"
    /\ LET i == IF conc.tmp = 0 THEN InodeOf(p) ELSE conc.tmp
       IN  conc' = [conc EXCEPT
                      !.tmp = i,
                      !.inodes[i] = <<>>,
                      !.truncated = @ \cup Writing(p, i),
                      !.procs[p] = [pc |-> "c_write", fd |-> i, off |-> 0,
                                    err |-> Nil]]
    /\ UNCHANGED <<pair, fs0, fs, pc, fn, cmd, rd, captured, cbReturns, result,
                   printed, history, rp, loc>>

\* lines 139-143: the Writer writes the next piece through its descriptor
concWrite(p) ==
    /\ conc.stage = "run"
    /\ conc.procs[p].pc = "c_write"
    /\ LET me == conc.procs[p]
       IN  conc' = [conc EXCEPT
                      !.inodes[me.fd] = WriteAt(@, me.off + 1, p),
                      !.procs[p].off = me.off + 1,
                      !.procs[p].pc = IF me.off + 1 = NChunks
                                      THEN "c_rename" ELSE "c_write"]
    /\ UNCHANGED <<pair, fs0, fs, pc, fn, cmd, rd, captured, cbReturns, result,
                   printed, history, rp, loc>>

\* lines 145-150: os.Rename(name + ".tmp", name)
concRename(p) ==
    /\ conc.stage = "run"
    /\ conc.procs[p].pc = "c_rename"
    /\ IF conc.tmp = 0
       THEN conc' = [conc EXCEPT !.procs[p].pc = "c_defer",
                                 !.procs[p].err = ErrIO]
       ELSE conc' = [conc EXCEPT !.final = conc.tmp, !.tmp = 0,
                                 !.procs[p].pc = "c_defer"]
    /\ UNCHANGED <<pair, fs0, fs, pc, fn, cmd, rd, captured, cbReturns, result,
                   printed, history, rp, loc>>

\* lines 119-124: the deferred os.Remove(name + ".tmp")
concDeferred(p) ==
    /\ conc.stage = "run"
    /\ conc.procs[p].pc = "c_defer"
    /\ conc' = [conc EXCEPT
                  !.tmp = 0,
                  !.removed = @ \cup (IF conc.tmp = 0 THEN {}
                                      ELSE Writing(p, conc.tmp)),
                  !.procs[p].pc = "done"]
    /\ UNCHANGED <<pair, fs0, fs, pc, fn, cmd, rd, captured, cbReturns, result,
                   printed, history, rp, loc>>

\* ----------------------------------------------------------- specification
Next ==
    \/ validateCall \/ validateReturn
    \/ checkIfValidVCall \/ checkIfValidVReturn
    \/ checkIfValidCall \/ checkIfValidReturn
    \/ readArtifactCall \/ readArtifactReturn
    \/ ReadArtifact
    \/ writeRootfs
    \/ writeArtifactCall \/ writeCreate \/ writePrepare \/ writeWrite
    \/ writeRename \/ writeDeferred
    \/ repack
    \/ signExistingCall \/ signTempFile \/ signOpen \/ signCheck \/ signClose
    \/ signRename \/ signDeferred
    \/ repackArtifactCall \/ repackArtifactReturn
    \/ modifyArtifactCall \/ modifyChecked
    \/ unpackArtifactCall \/ unpackArtifactReturn
    \/ modifyOpen \/ modifyMount \/ modifyUnmount \/ modifyRepack
    \/ modifyReturn

Spec == Init /\ [][Next]_vars

\* the commands, and the two runs of repack side by side
NextPair == Next \/ PairCall \/ PairRepack

SpecPair == Init /\ [][NextPair]_vars

\* two concurrent runs of writeArtifact
NextConc ==
    \/ concStart
    \/ \E p \in Procs :
        \/ concCreate(p) \/ concWrite(p) \/ concRename(p) \/ concDeferred(p)

SpecConc == Init /\ [][NextConc]_vars

\* ------------------------------------------------------------------ claims
Done == pc = "done"
Src0 == fs0[ArtPath]
CallbackInvoked == Len(cbReturns) > 0
ReadReturned == rd.stage = "returned"

\* C1: at every validation entry point (validate and checkIfValid of
\* validate.go, checkIfValid of the main file), when the Reader invoked the
\* verify callback and no key was supplied, the call does not return success.
C1_NoKeyNeverValid ==
    (Done /\ cmd.op \in {"validate", "checkIfValidV", "checkIfValid"}
        /\ CallbackInvoked /\ cmd.key = NoKey)
    => result.err # Nil

\* C2: the verify callback handed to the Reader returns nil whatever the
\* signature and the key are, so the Reader ends with its own structural
\* result and never with a signature error, and the command decides its
\* result only after ReadArtifact has returned.
C2_VerifyNeverAborts ==
    /\ \A i \in 1..Len(cbReturns) : cbReturns[i] = Nil
    /\ rd.err \notin SignatureErrors
    /\ (CallbackInvoked /\ (result # Pending \/ printed) => ReadReturned)
    /\ (CallbackInvoked /\ fn = "repack" /\ rp.returned => ReadReturned)

\* a signature error was captured and the read went on to a structural error
C2_Witness ==
    /\ Done
    /\ cmd.op = "validate"
    /\ validationError = ErrVerify
    /\ rd.err = ErrChecksum

\* C3: validate and checkIfValid of validate.go succeed exactly when
\* ReadArtifact returned no error and no signature error was captured; an
\* error of ReadArtifact is returned as it is; a signature error alone gives
\* the distinct "formatted correctly" error (badSignature in checkIfValid),
\* which no structural failure produces.
C3_ValidateResult ==
    (Done /\ cmd.op \in {"validate", "checkIfValidV"})
    => /\ result.err = Nil
          <=> (ReadReturned /\ rd.err = Nil /\ validationError = Nil)
       /\ (ReadReturned /\ rd.err # Nil => result = Return(rd.err))
       /\ (ReadReturned /\ rd.err = Nil /\ validationError # Nil
            => /\ result.err = ErrBadSignature
               /\ result.cause = validationError
               /\ (cmd.op = "checkIfValidV" => result.badSignature))
       /\ (result.err = ErrBadSignature \/ result.badSignature
            => rd.err = Nil /\ validationError # Nil)

C3_Witness ==
    /\ Done
    /\ cmd.op = "checkIfValidV"
    /\ result.badSignature
    /\ validationError = ErrNoKey

\* C4: when the read captured a signature error and then failed structurally,
\* the result of validate / checkIfValid carries the structural error and the
\* captured signature outcome.
C4_BothReported ==
    (Done /\ cmd.op \in {"validate", "checkIfValidV"}
        /\ ReadReturned /\ rd.err # Nil /\ validationError # Nil)
    => /\ result.err = rd.err
       /\ (result.cause = validationError \/ result.badSignature)

\* at least one script file among the script arguments
AtLeastOneScript(args) ==
    \E i \in 1..Len(args) :
        \/ File(args[i]).kind = "script"
        \/ File(args[i]).kind = "dir" /\ File(args[i]).entries # {}

\* C5: writeArtifact with version 1 and a signing key or at least one script
\* fails, WriteArtifact is not invoked, no byte reaches the output stream and
\* the final output path keeps what it held.
C5_V1Rejected ==
    (cmd.op = "writeArtifact" /\ cmd.version = 1
        /\ (cmd.keyPath # "" \/ AtLeastOneScript(cmd.script)))
    => /\ writerCalls = <<>>
       /\ renames = <<>>
       /\ fs[TmpOf(loc.name)].kind \in {"absent", "empty"}
       /\ fs[loc.name] = fs0[loc.name]
       /\ (Done => result.err # Nil)

C5_Witness ==
    /\ Done
    /\ cmd.op = "writeArtifact"
    /\ cmd.version = 1
    /\ cmd.keyPath = ""
    /\ cmd.script = <<ScriptDir>>
    /\ result.err = ErrV1Scripts

\* C6: when writeArtifact has returned, the temporary file is gone; the final
\* path holds the new artifact exactly when the call succeeded, and holds
\* what it held before on every failure; the rename comes only after a
\* successful WriteArtifact.
C6_AtomicPlacement ==
    cmd.op = "writeArtifact"
    => /\ (renames # <<>>
            => /\ Len(renames) = 1
               /\ Len(writerCalls) = 1
               /\ renames[1].to = loc.name
               /\ (renames[1].ok => fs[loc.name].kind = "artifact"))
       /\ (Done
            => /\ ~Exists(TmpOf(loc.name))
               /\ (result.err = Nil <=> fs[loc.name] # fs0[loc.name])
               /\ (result.err = Nil => fs[loc.name].kind = "artifact")
               /\ (result.err # Nil => fs[loc.name] = fs0[loc.name]))

\* a file at the final path is replaced by a successful write
C6_Witness ==
    /\ Done
    /\ cmd.op = "writeArtifact"
    /\ result.err = Nil
    /\ fs0[loc.name] = PriorFile
    /\ fs[loc.name].kind = "artifact"

\* C7: signExisting on a version 1 source fails, renames nothing, leaves the
\* source path and the output path as they were, and has removed its
\* temporary file when it returns.
C7_SignV1Rejected ==
    (cmd.op = "signExisting" /\ Src0.kind = "artifact" /\ Src0.version = 1)
    => /\ renames = <<>>
       /\ fs[ArtPath] = fs0[ArtPath]
       /\ fs[OutPath] = fs0[OutPath]
       /\ (Done => result.err # Nil /\ ~Exists(TFile))

\* a sound version 1 source was read and repacked before the call failed
C7_Witness ==
    /\ Done
    /\ cmd.op = "signExisting"
    /\ Src0.kind = "artifact"
    /\ Src0.version = 1
    /\ Src0.damage = "none"
    /\ ReadReturned
    /\ rd.err = Nil
    /\ result.err # Nil

SignTarget == IF cmd.output # "" THEN cmd.output ELSE ArtPath
SignGuardPassed ==
    /\ rp.caller = "signExisting"
    /\ rp.returned
    /\ rp.err = Nil
    /\ Src0.version = 2
    /\ (cmd.force \/ ~rd.IsSigned)

\* signExisting without force on a signed version 2 source
C8_Refused ==
    (Src0.kind = "artifact" /\ Src0.version = 2 /\ Src0.signedBy # "none"
        /\ ~cmd.force)
    => /\ renames = <<>>
       /\ fs[ArtPath] = fs0[ArtPath]
       /\ fs[OutPath] = fs0[OutPath]
       /\ (Done => result.err # Nil /\ ~Exists(TFile))

C8_OneRename ==
    /\ Len(renames) = 1
    /\ renames[1].from = TFile
    /\ renames[1].to = SignTarget
    /\ (renames[1].ok
         => /\ result.err = Nil
            /\ fs[SignTarget].kind = "artifact"
            /\ fs[SignTarget].signedBy = loc.privateKey)

\* C8 as stated: without force a signed version 2 source is refused and
\* nothing is renamed; with force, or on an unsigned version 2 source, a
\* successful repack is followed by exactly one rename onto the output path
\* if given, else onto the source path; no rename precedes the checks.
C8_ResignGuard ==
    cmd.op = "signExisting"
    => /\ C8_Refused
       /\ (renames # <<>> => SignGuardPassed)
       /\ (Done /\ SignGuardPassed => C8_OneRename)

\* C8 amended: the rename follows a successful repack when closing the
\* temporary file succeeded as well; when the close fails the call fails
\* and renames nothing.
C8_ResignGuardAmended ==
    cmd.op = "signExisting"
    => /\ C8_Refused
       /\ (renames # <<>> => SignGuardPassed /\ loc.closeErr = Nil)
       /\ (Done /\ SignGuardPassed /\ loc.closeErr = Nil => C8_OneRename)
       /\ (Done /\ SignGuardPassed /\ loc.closeErr # Nil
            => renames = <<>> /\ result.err # Nil /\ ~Exists(TFile))

\* a source signed with another key is signed again under force, in place
C8_Witness ==
    /\ Done
    /\ cmd.op = "signExisting"
    /\ cmd.force
    /\ cmd.output = ""
    /\ Src0.kind = "artifact"
    /\ Src0.signedBy = "k2"
    /\ Len(renames) = 1
    /\ renames[1].ok
    /\ fs[ArtPath].signedBy = "k1"

\* C9: when repack has returned, the script staging directory and the staged
\* payload file no longer exist.
C9_ScratchReleased ==
    (rp.caller # "none" /\ rp.returned)
    => ~Exists(SDir) /\ ~Exists(TmpData)

\* C10: repackArtifact(artifact, rootfs, key, newName) hands the Writer the
\* replacement file rootfs as the payload, and as the name newName when it
\* is not empty and the name of the source otherwise.
C10_RepackArtifact ==
    (cmd.op = "repackArtifact" /\ writerCalls # <<>>)
    => /\ writerCalls[1].data = cmd.rootfs
       /\ writerCalls[1].name
            = (IF cmd.newName # "" THEN cmd.newName ELSE Src0.name)

RepackWrote == rp.caller # "none" /\ writerCalls # <<>>

\* C11: repack hands the Writer the format name, the format version and the
\* device types of the source as read, the name of the source when newName
\* is empty, and a payload handler of the version of the source, over the
\* staged copy of the source payload when no data file is given.
C11_RepackFrame ==
    RepackWrote
    => /\ Len(writerCalls) = 1
       /\ writerCalls[1].to = rp.to
       /\ writerCalls[1].format = Src0.format
       /\ writerCalls[1].version = Src0.version
       /\ writerCalls[1].devs = Src0.devs
       /\ (rp.newName = "" => writerCalls[1].name = Src0.name)
       /\ writerCalls[1].handler
            = (IF Src0.version = 1 THEN "RootfsV1" ELSE "RootfsV2")
       /\ (rp.dataFile = ""
            => /\ writerCalls[1].data = TmpData
               /\ fs[TmpData] = DataFile(Src0.payload))
       /\ (rp.dataFile # "" => writerCalls[1].data = rp.dataFile)

\* a version 2 source repacked with neither a new name nor a data file
C11_Witness ==
    /\ RepackWrote
    /\ rp.returned
    /\ rp.err = Nil
    /\ rp.newName = ""
    /\ rp.dataFile = ""
    /\ Src0.version = 2
    /\ fs[rp.to].name = Src0.name
    /\ fs[rp.to].payload = Src0.payload

WriteRun == cmd.op \in {"writeRootfs", "writeArtifact"}

\* C12: "write rootfs-image" rejects every artifact name that contains white
\* space anywhere, leading and trailing included, before writeArtifact is
\* called and before any file is created.
C12_WhitespaceRejected ==
    (WriteRun /\ HasWhitespace(cmd.artifactName)
        /\ cmd.deviceType # <<>> /\ cmd.update # "")
    => /\ cmd.op = "writeRootfs"
       /\ pc = "done"
       /\ result.err = ErrWhitespace
       /\ fs = fs0

ReadRun == cmd.op = "readArtifact" /\ pc \in {"read", "done"}

\* C13: the signature status of readArtifact is "no signature" exactly when
\* the callback was never invoked, "signed but no key" exactly when it was
\* invoked without a key, "verification failed" exactly when the key gave a
\* verify error, "verified correctly" exactly when the key gave none; and
\* the signature outcome never makes readArtifact fail or skip printing.
C13_SignatureStatus ==
    ReadRun
    => /\ sigInfo = "no signature" <=> ~CallbackInvoked
       /\ sigInfo = "signed but no key for verification provided"
            <=> (CallbackInvoked /\ cmd.key = NoKey)
       /\ sigInfo = "signed; verification using provided key failed"
            <=> (CallbackInvoked /\ cmd.key # NoKey
                    /\ Verify(cmd.key, Src0) # Nil)
       /\ sigInfo = "signed and verified correctly"
            <=> (CallbackInvoked /\ cmd.key # NoKey
                    /\ Verify(cmd.key, Src0) = Nil)
       /\ \A i \in 1..Len(cbReturns) : cbReturns[i] = Nil
       /\ (Done /\ ReadReturned)
            => /\ result.err = rd.err
               /\ result.err \notin SignatureErrors
               /\ printed <=> rd.err = Nil
               /\ Src0.damage = "none" => printed

\* a sound artifact signed with another key than the one given is printed
C13_Witness ==
    /\ ReadRun
    /\ Done
    /\ CallbackInvoked
    /\ cmd.key # NoKey
    /\ Verify(cmd.key, Src0) # Nil
    /\ sigInfo = "signed; verification using provided key failed"
    /\ printed
    /\ result.err = Nil

\* C14: scripts pass through repack unchanged: the Writer gets the same
\* names in the order the Reader delivered them, and duplicate hook names
\* are passed through, neither rejected nor merged.
C14_ScriptsUnchanged ==
    /\ RepackWrote => writerCalls[1].scripts = Src0.scripts
    /\ rp.caller # "none" => rd.err # ErrScriptFile

ModifyRun == cmd.op = "modifyArtifact"

\* C15: when modifyArtifact succeeds on an input that validated as an
\* artifact, the recomposed artifact is at the artifact path of the command
\* line and no temporary output file of the repack is left; when it fails,
\* the source is unchanged.
C15_ModifyPlaced ==
    (ModifyRun /\ Done)
    => /\ (result.err = Nil /\ loc.isArtifact)
            => /\ writerCalls # <<>>
               /\ fs[ArtPath].kind = "artifact"
               /\ fs[ArtPath].name = writerCalls[1].name
               /\ fs[ArtPath].payload = File(writerCalls[1].data).payload
               /\ ~Exists(TFile)
       /\ result.err # Nil => fs[ArtPath] = fs0[ArtPath]

\* C16: the result of repack does not depend on the signature of the
\* source being valid: two runs on sources that differ only in the bytes of
\* the signature, with the same key, newName and dataFile, end with the
\* same error or success and hand the Writer the same inputs.  The runs of
\* the commands end as repackOutcome says, for some outcome of the
\* environment.
C16_SignatureIndependent ==
    /\ pair.stage = "done" => pair.first = pair.second
    /\ (rp.caller # "none" /\ rp.returned)
        => \E env \in Envs :
             LET o == repackOutcome(fs0, rp.to, rp.key, rp.newName,
                                    rp.dataFile, env)
             IN  o.err = rp.err /\ o.calls = writerCalls

\* a source signed with k1 and a twin with a forged signature, both
\* repacked with k1 into the same signed artifact
C16_Witness ==
    /\ pair.stage = "done"
    /\ Src.signedBy = "k1"
    /\ pair.twin.signedBy = "forged"
    /\ pair.key = "k1"
    /\ pair.first.err = Nil
    /\ pair.second.err = Nil
    /\ Len(pair.second.calls) = 1

\* C17: an empty list of device types, an empty artifact name, an empty
\* update path, or a version other than 1 and 2 each make write fail before
\* the temporary file is created: neither "<output>.tmp" nor the final
\* path is created or modified.
C17_InvalidInputsRejected ==
    (WriteRun /\ (\/ cmd.deviceType = <<>>
                  \/ cmd.artifactName = ""
                  \/ cmd.update = ""
                  \/ (cmd.op = "writeArtifact" /\ cmd.version \notin {1, 2})))
    => /\ pc = "done"
       /\ result.err \in {ErrMustProvide, ErrUnsupported}
       /\ writerCalls = <<>>
       /\ renames = <<>>
       /\ fs = fs0

\* a write with no update path, over an output path that holds a file
C17_Witness ==
    /\ WriteRun
    /\ Done
    /\ cmd.update = ""
    /\ cmd.deviceType # <<>>
    /\ cmd.artifactName = "release-1"
    /\ result.err = ErrMustProvide
    /\ fs0[OutPath] = PriorFile
    /\ fs = fs0

\* checkIfValid has returned to modifyArtifact
ModifyCheckDone == ModifyRun /\ ~(pc = "read" /\ fn = "checkIfValid")

\* C18: modifyArtifact repacks if and only if checkIfValid succeeded: the
\* repack is reached only with isArtifact set, and a run that ends without
\* an error has repacked exactly when the check succeeded.  When the check
\* fails for any reason, a signature that is invalid for the given key
\* included, the input file itself is the file opened read-write and handed
\* to mountFile, unpackArtifact is not called and nothing is repacked.
C18_RepackIffValid ==
    ModifyCheckDone
    => /\ loc.isArtifact <=> loc.checkErr = Nil
       /\ (pc = "m_repack" \/ rp.caller # "none") => loc.isArtifact
       /\ (Done /\ result.err = Nil)
            => (loc.isArtifact <=> (rp.caller # "none" /\ rp.returned))
       /\ loc.unpacked => loc.isArtifact
       /\ pc = "m_unmount" => loc.mounted = loc.fileToModify
       /\ loc.mounted # "" => loc.mounted = loc.opened
       /\ (Src0.kind = "artifact" /\ Src0.signedBy # "none"
            /\ cmd.key # NoKey /\ Verify(cmd.key, Src0) # Nil)
            => loc.checkErr # Nil
       /\ loc.checkErr # Nil
            => /\ loc.fileToModify = ArtPath
               /\ loc.opened \in {"", ArtPath}
               /\ loc.mounted \in {"", ArtPath}
               /\ ~loc.unpacked
               /\ rp.caller = "none"
               /\ writerCalls = <<>>
               /\ pc \in {"m_open", "m_mount", "m_unmount", "done"}

\* an artifact whose signature is invalid for the key is mounted as it is
C18_Witness ==
    /\ ModifyRun
    /\ Done
    /\ loc.checkErr = ErrBadSignature
    /\ loc.opened = ArtPath
    /\ loc.mounted = ArtPath
    /\ result.err = Nil
    /\ rp.caller = "none"

\* C19: the artifact repack produces is signed exactly when a key is
\* passed: a signed source repacked with no key goes through the unsigned
\* Writer and loses its signature, while IsSigned of the returned reader
\* still describes the source.
C19_SignedIffKey ==
    /\ RepackWrote
        => /\ writerCalls[1].signer # NoKey <=> rp.key # NoKey
           /\ rp.key # NoKey => writerCalls[1].signer = rp.key
    /\ (RepackWrote /\ rp.returned /\ rp.err = Nil
            /\ File(rp.to).kind = "artifact")
        => File(rp.to).signedBy
             = (IF rp.key = NoKey THEN "none" ELSE rp.key)
    /\ (rp.caller # "none" /\ rp.returned /\ ReadReturned /\ rd.err = Nil)
        => rd.IsSigned = (Src0.signedBy # "none")

\* a source signed with k1 repacked by repackArtifact without a key
C19_Witness ==
    /\ RepackWrote
    /\ rp.returned
    /\ rp.err = Nil
    /\ rp.key = NoKey
    /\ Src0.signedBy = "k1"
    /\ rd.IsSigned
    /\ fs[rp.to].kind = "artifact"
    /\ fs[rp.to].signedBy = "none"

\* the file at the output path is a whole artifact written by one run
CompleteFinal ==
    /\ conc.final # 0
    /\ \E p \in Procs :
         conc.inodes[conc.final] = [j \in 1..NChunks |-> p]

\* C20: under any interleaving of two runs of writeArtifact on the same
\* output path, whenever a run has returned success the file at the output
\* path is a complete artifact written by a single run, and neither run
\* removes or truncates the temporary file of the other.
C20_ConcurrentWrites ==
    conc.stage = "run"
    => /\ \A p \in Procs :
            (conc.procs[p].pc = "done" /\ conc.procs[p].err = Nil)
            => CompleteFinal
       /\ conc.truncated = {}
       /\ conc.removed = {}

====
